---- MODULE Spec2Model ----
(***************************************************************************)
(* TNC-Telnet: the engine (TNC), the monitor channel (Monitor) and the     *)
(* connection channels (Channel), as a state machine.                      *)
(*                                                                         *)
(* Byte strings are sequences of tokens (TLA+ strings): a token is one     *)
(* byte ("\r", "\n", "a", "FF") or a run of bytes that the code never      *)
(* looks into ("NOCALL", "LINK FAILURE with ").  Python's None is the      *)
(* value None below.  Each channel worker is a thread: its position in     *)
(* Channel.run is wpc[c], and a worker whose run() raised is "dead".       *)
(***************************************************************************)
EXTENDS Integers, Sequences, FiniteSets, TLC

\* ------------------------------------------------------------- bounds
NCh == 1
MaxQueue == 2
MaxTx == 1
MaxMonLen == 11
MaxEvents == 3
NLog == 2
MaxPkt == 4
MaxConc == 3      \* events in the monitor queue when concurrent threads call log

\* ---------------------------------------------------- program constants
MAX_PKTLEN == 254
MAX_I_MSGS == 9
MAX_MSGS == 10

ST_DISC == 0
ST_SETUP == 1
ST_CONN == 4

MSG_I == 0
MSG_S == 1
MSG_MON_H == 4
MSG_MON_HI == 5
MSG_MON_I == 6

MODE_TERM == 0
MODE_HOST == 1

COND_OK == 0
COND_OKMSG == 1
COND_ERRMSG == 2
COND_LNK == 3
COND_MON == 4
COND_MONHDR == 5
COND_MONINF == 6
COND_CONINFO == 7

DEFAULT_CALLSIGN == <<"NOCALL">>
DEFAULT_FILTER == <<"N">>

None == <<"<None>">>
Chans == 1 .. NCh

\* Python truthiness of an optional byte string
Truthy(b) == b # None /\ b # <<>>

\* "%d" of a small integer
Dec(k) == <<"0", "1", "2", "3", "4", "5", "6", "7", "8", "9", "10", "11", "12">>[k + 1]

\* bytes.upper(), token by token
UpperTok(t) ==
    CASE t = "ea4bao" -> "EA4BAO"
      [] t = "jhost1" -> "JHOST1"
      [] t = "host0"  -> "HOST0"
      [] t = "g"      -> "G"
      [] t = "c"      -> "C"
      [] t = "i"      -> "I"
      [] t = "u"      -> "U"
      [] t = "s"      -> "S"
      [] OTHER        -> t

Upper(b) == [k \in 1 .. Len(b) |-> UpperTok(b[k])]

IsSpace(t) == t \in {" ", "\r", "\n", "\t"}

RECURSIVE LStrip(_)
LStrip(b) == IF b # <<>> /\ IsSpace(Head(b)) THEN LStrip(Tail(b)) ELSE b

RECURSIVE RStrip(_)
RStrip(b) ==
    IF b # <<>> /\ IsSpace(b[Len(b)]) THEN RStrip(SubSeq(b, 1, Len(b) - 1)) ELSE b

\* bytes.strip()
Strip(b) == RStrip(LStrip(b))

\* bytes.replace(b"\r\n", b"\r")
RECURSIVE CollapseCRLF(_)
CollapseCRLF(b) ==
    IF b = <<>> THEN <<>>
    ELSE IF Len(b) >= 2 /\ b[1] = "\r" /\ b[2] = "\n"
         THEN <<"\r">> \o CollapseCRLF(SubSeq(b, 3, Len(b)))
         ELSE <<b[1]>> \o CollapseCRLF(Tail(b))

\* number of events of kind t in a queue
RECURSIVE CountKind(_, _)
CountKind(q, t) ==
    IF q = <<>> THEN 0
    ELSE (IF Head(q)[1] = t THEN 1 ELSE 0) + CountKind(Tail(q), t)

\* an event of a queue: <<kind, payload>>, kind as "%d" of the MSG_ constant
Ev(kind, payload) == <<Dec(kind), payload>>

VARIABLES
    mode,        \* TNC.mode
    tnc,         \* the engine thread: "running", "closed" (EOF), "raised"
    out,         \* what the engine wrote to the host stream for the last input
    status,      \* Channel.status
    station,     \* Channel.station
    call,        \* Channel.call
    buffer_tx,   \* Channel.buffer_tx
    msgs,        \* Channel.msgs
    seq,         \* Channel.seq
    wpc,         \* position of the worker in Channel.run
    ipaddr,      \* local ipaddr of Channel.run
    sock,        \* local s of Channel.run: "unbound", "open", "closed"
    err,         \* local err of Channel.run
    n,           \* local n of Channel.run (-1: unbound)
    sent,        \* bytes the TCP socket accepted, in order
    mon_msgs,    \* Monitor.msgs
    mfilter,     \* Monitor.mfilter
    mon_call,    \* Monitor.call
    mon_station, \* Monitor.station
    log_exc,     \* the last Monitor.log call raised
    stafile,     \* content of the stations file
    mlog,        \* the calls of Monitor.log in progress, one per calling thread
    app,         \* the method the last step applied to arguments given directly
    req          \* history: the last input the engine read

engine_vars == <<mode, tnc, out>>
chan_vars == <<status, station, call, buffer_tx, msgs, seq>>
worker_vars == <<wpc, sock, err, n, sent>>
mon_vars == <<mon_msgs, mfilter, mon_call, mon_station, log_exc, mlog>>
hist_vars == <<req>>
vars == <<engine_vars, chan_vars, worker_vars, ipaddr, mon_vars, hist_vars, stafile, app>>

\* ------------------------------------------------------------ Monitor
\* the frame class Monitor.log derives from ctl; "unbound" when no branch
\* of the if/elif chain assigns uisc
LogClass(ctl) ==
    CASE ctl \in {"SABM", "DISC", "UA", "DM"} -> "U"
      [] ctl = "RR" -> "S"
      [] ctl = "I"  -> "I"
      [] OTHER      -> "unbound"

\* the header text Monitor.log composes
LogText(ctl, src, dst, seqv, nxtv) ==
    CASE ctl = "SABM" -> <<"fm ">> \o src \o <<" to ">> \o dst \o <<" ctl SABM+">>
      [] ctl = "DISC" -> <<"fm ">> \o src \o <<" to ">> \o dst \o <<" ctl DISC+">>
      [] ctl = "UA"   -> <<"fm ">> \o src \o <<" to ">> \o dst \o <<" ctl UA-">>
      [] ctl = "DM"   -> <<"fm ">> \o src \o <<" to ">> \o dst \o <<" ctl DM-">>
      [] ctl = "RR"   -> <<"fm ">> \o src \o <<" to ">> \o dst
                             \o <<" ctl RR", Dec(nxtv), "-">>
      [] ctl = "I"    -> <<"fm ">> \o src \o <<" to ">> \o dst
                             \o <<" ctl I", Dec(nxtv), Dec(seqv), " pid F0+">>
      [] OTHER        -> <<>>

\* a filter test that lets every frame class through
InFilter_any(uisc, f) == TRUE

\* uisc in self.mfilter
InFilter(uisc, f) == \E k \in 1 .. Len(f) : f[k] = uisc

\* Monitor.log(ctl, src, dst, seq, nxt, i) on the queue q under filter f:
\* the queue afterwards, and whether the call raised (UnboundLocalError at
\* the first use of uisc when ctl matched no branch)
MonitorLog(ctl, src, dst, seqv, nxtv, i, q, f) ==
    LET uisc == LogClass(ctl)
        msg  == LogText(ctl, src, dst, seqv, nxtv)
    IN  IF uisc = "unbound" THEN [raised |-> TRUE, q |-> q]
        ELSE IF ~InFilter(uisc, f) THEN [raised |-> FALSE, q |-> q]
        ELSE IF uisc \in {"I"} /\ Len(q) >= MAX_MSGS THEN [raised |-> FALSE, q |-> q]
        ELSE IF ctl = "I"
             THEN [raised |-> FALSE,
                   q |-> q \o <<Ev(MSG_MON_HI, msg), Ev(MSG_MON_I, CollapseCRLF(i))>>]
             ELSE [raised |-> FALSE, q |-> Append(q, Ev(MSG_MON_H, msg))]

\* the threads that call Monitor.log, and a thread that is not inside it
Loggers == 1 .. NLog
LogIdle == [pc |-> "idle", hdr |-> <<>>, info |-> <<>>]

\* no method has been applied
NoApp == [f |-> "none", in |-> <<>>, sent |-> <<>>, msgs |-> <<>>, raised |-> FALSE]

\* the (None, None) a poll of an empty queue returns
NoEv == <<"None", None>>

\* Monitor._get_msg: the filter argument is ignored
Monitor_get_msg(q) ==
    IF q = <<>> THEN [ret |-> "event", ev |-> NoEv, q |-> q]
    ELSE [ret |-> "event", ev |-> Head(q), q |-> Tail(q)]

\* Monitor.L
Monitor_L(q) == <<Dec(0), " ", Dec(Len(q))>>

\* ------------------------------------------------------------ Channel
\* index of the first event of kind t in q, 0 when there is none
FirstIdx(q, t) ==
    IF \E k \in 1 .. Len(q) : q[k][1] = t
    THEN CHOOSE k \in 1 .. Len(q) :
             q[k][1] = t /\ \A j \in 1 .. (k - 1) : q[j][1] # t
    ELSE 0

\* list.pop(i), the list afterwards (i counted from 1)
PopAt(q, i) == SubSeq(q, 1, i - 1) \o SubSeq(q, i + 1, Len(q))

\* Channel._get_msg taking the newest event where the code takes the oldest
Channel_get_msg_lifo(q, t) ==
    IF q = <<>> THEN [ret |-> "event", ev |-> NoEv, q |-> q]
    ELSE IF t = "" THEN [ret |-> "event", ev |-> q[Len(q)], q |-> PopAt(q, Len(q))]
    ELSE LET i == FirstIdx(q, t)
         IN  IF i > 0 THEN [ret |-> "event", ev |-> q[i], q |-> PopAt(q, i)]
             ELSE [ret |-> "none", ev |-> NoEv, q |-> q]

\* Channel._get_msg with pop(0) in the filtered branch where the code has pop(i)
Channel_get_msg_pop0(q, t) ==
    IF q = <<>> THEN [ret |-> "event", ev |-> NoEv, q |-> q]
    ELSE IF t = "" THEN [ret |-> "event", ev |-> Head(q), q |-> PopAt(q, 1)]
    ELSE LET i == FirstIdx(q, t)
         IN  IF i > 0 THEN [ret |-> "event", ev |-> q[i], q |-> PopAt(q, 1)]
             ELSE [ret |-> "none", ev |-> NoEv, q |-> q]

\* Channel._get_msg(t): t is "" (any), "0" (data) or "1" (link status).
\* ret = "event": a pair was returned; ret = "none": the for loop ended
\* without a match and the method returned None, not a pair.
Channel_get_msg(q, t) ==
    IF q = <<>> THEN [ret |-> "event", ev |-> NoEv, q |-> q]
    ELSE IF t = "" THEN [ret |-> "event", ev |-> Head(q), q |-> PopAt(q, 1)]
    ELSE LET i == FirstIdx(q, t)
         IN  IF i > 0 THEN [ret |-> "event", ev |-> q[i], q |-> PopAt(q, i)]
             ELSE [ret |-> "none", ev |-> NoEv, q |-> q]

\* Channel._count_msgs(t)
Channel_count_msgs(q, t) == CountKind(q, Dec(t))

\* Channel.tx: the buffer afterwards
Channel_tx(buf, data) ==
    IF data # <<>> /\ data[Len(data)] = "\r" THEN buf \o data \o <<"\n">>
    ELSE buf \o data

\* int(len(buffer_tx) / MAX_PKTLEN + 0.5), in integers:
\* floor((2 * len + MAX_PKTLEN) / (2 * MAX_PKTLEN))
Channel_L_frames(len) == (2 * len + MAX_PKTLEN) \div (2 * MAX_PKTLEN)

\* Channel.L
Channel_L(q, buf, st) ==
    <<Dec(Channel_count_msgs(q, MSG_S)), " ", Dec(Channel_count_msgs(q, MSG_I)), " ",
      Dec(Channel_L_frames(Len(buf))), " ", Dec(0), " ", Dec(0), " ", Dec(st)>>

\* Channel._monitor(t, i) of a channel whose callsign is me, remote station
\* remote and counter seqv, on the monitor queue q under filter f: the
\* monitor queue and the counter afterwards, and whether the call raised.
\* The call to Monitor.log passes (mtype, msg, ftype) as (ctl, src, dst).
MonitorKinds == {"MySYN", "ItsSYNACK", "MyFIN", "ItsFINACK", "ItsFIN", "MyFINACK",
                 "ItsRST", "MyRST", "MyPSH", "ItsPSHACK", "ItsPSH", "MyPSHACK"}

Channel_monitor(t, i, me, remote, seqv, q, f) ==
    LET nxtv   == (seqv + 1) % 8
        known  == /\ t \in MonitorKinds
                  /\ (t \in {"MyPSH", "ItsPSH"} => Truthy(i))
        mtype  == IF t \in {"MyPSH", "ItsPSH"} THEN MSG_MON_HI ELSE MSG_MON_H
        ftype  == CASE t \in {"MyPSH", "ItsPSH"} -> "I"
                    [] t \in {"ItsPSHACK", "MyPSHACK"} -> "S"
                    [] OTHER -> "U"
        fromMe == t \in {"MySYN", "MyFIN", "MyFINACK", "MyRST", "MyPSH", "MyPSHACK"}
        src    == IF fromMe THEN me ELSE remote
        dst    == IF fromMe THEN remote ELSE me
        ctltxt == CASE t = "MySYN" -> <<" ctl SABM+">>
                    [] t \in {"ItsSYNACK", "ItsFINACK", "MyFINACK"} -> <<" ctl UA-">>
                    [] t \in {"MyFIN", "ItsFIN"} -> <<" ctl DISC+">>
                    [] t \in {"ItsRST", "MyRST"} -> <<" ctl DM-">>
                    [] t \in {"MyPSH", "ItsPSH"} ->
                           <<" ctl I", Dec(nxtv), Dec(seqv), " pid F0+">>
                    [] OTHER -> <<" ctl RR", Dec(nxtv), "-">>
        msg    == <<"fm ">> \o src \o <<" to ">> \o dst \o ctltxt
        seq1   == IF t \in {"ItsPSHACK", "MyPSHACK"} THEN nxtv ELSE seqv
        log1   == MonitorLog(Dec(mtype), msg, <<ftype>>, 0, 0, <<>>, q, f)
        log2   == MonitorLog(Dec(MSG_MON_I), CollapseCRLF(i), <<"I">>, 0, 0, <<>>, log1.q, f)
    IN  IF ~known THEN [raised |-> FALSE, q |-> q, seq |-> seqv]
        ELSE IF me = None \/ remote = None
             THEN [raised |-> TRUE, q |-> q, seq |-> seqv]      \* b"%s" % None
        ELSE IF log1.raised THEN [raised |-> TRUE, q |-> log1.q, seq |-> seq1]
        ELSE IF Truthy(i) THEN [raised |-> log2.raised, q |-> log2.q, seq |-> seq1]
        ELSE [raised |-> FALSE, q |-> log1.q, seq |-> seq1]

\* Channel._reply_telnet_negotiation: the bytes sent back
RECURSIVE ReplaceTok(_, _, _)
ReplaceTok(b, from, to) ==
    IF b = <<>> THEN <<>>
    ELSE <<IF Head(b) = from THEN to ELSE Head(b)>> \o ReplaceTok(Tail(b), from, to)

\* _reply_telnet_negotiation with the two replacements in the other order
Channel_reply_telnet_negotiation_swapped(options) ==
    ReplaceTok(ReplaceTok(options, "FD", "FC"), "FC", "FE")

\* Channel._reply_telnet_negotiation(sock, options): the bytes sent
Channel_reply_telnet_negotiation(options) ==
    ReplaceTok(ReplaceTok(options, "FC", "FE"), "FD", "FC")

\* ---------------------------------------------------- station directory
\* A stations file is "unreadable" or a sequence of lines; a line is
\* [comment |-> BOOLEAN, fields |-> what re.split(r'\s+', line.strip()) gives],
\* a port field is a decimal number (as an integer) or -1 when int() rejects it.
NotFound == [raised |-> FALSE, host |-> "", port |-> 0]

RECURSIVE ScanLines(_, _)
ScanLines(lines, sta) ==
    IF lines = <<>> THEN NotFound
    ELSE LET line == Head(lines)
         IN  IF line.comment THEN ScanLines(Tail(lines), sta)
             ELSE IF Len(line.fields) # 3
                  THEN [raised |-> TRUE, host |-> "", port |-> 0]     \* ValueError: unpack
             ELSE IF Upper(<<line.fields[1].s>>) = sta
                  THEN IF line.fields[3].k < 0
                       THEN [raised |-> TRUE, host |-> "", port |-> 0] \* ValueError: int()
                       ELSE [raised |-> FALSE, host |-> line.fields[2].s,
                             port |-> line.fields[3].k]
             ELSE ScanLines(Tail(lines), sta)

\* Channel._station2ip(station)
Channel_station2ip(sta, file) ==
    IF file.unreadable THEN NotFound
    ELSE ScanLines(file.lines, Strip(Upper(sta)))

\* all(ipaddr)
AllIp(ip) == ip.host # "" /\ ip.port # 0

\* ------------------------------------------------- inputs of the model
F(s) == [s |-> s, k |-> 0 - 1]
P(k) == [s |-> "", k |-> k]
Comment == [comment |-> TRUE, fields |-> <<>>]
Line(fs) == [comment |-> FALSE, fields |-> fs]

\* a well-formed stations file: a comment and one entry
StaFileOk ==
    [unreadable |-> FALSE,
     lines |-> <<Comment, Line(<<F("ea4bao"), F("127.0.0.1"), P(23)>>)>>]

StaFiles ==
    { [unreadable |-> TRUE, lines |-> <<>>],
      StaFileOk,
      [unreadable |-> FALSE,
       lines |-> <<Line(<<F("")>>), Line(<<F("EA4BAO"), F("127.0.0.1"), P(23)>>)>>],
      [unreadable |-> FALSE,
       lines |-> <<Line(<<F("EA4BAO"), F("127.0.0.1"), P(23), F("bbs")>>)>>],
      [unreadable |-> FALSE,
       lines |-> <<Line(<<F("EA4BAO"), F("127.0.0.1"), F("telnet")>>)>>] }

\* what connect_ex can return on a fresh non-blocking socket
ConnectResults == {"0", "EINPROGRESS", "ENETUNREACH"}

\* -------------------------------------------------------- Channel.run
\* The state one worker step reads and writes, as a record; raised is set
\* by the first statement that raises, and later statements are skipped.
WS(c) ==
    [status |-> status[c], station |-> station[c], call |-> call[c],
     buffer_tx |-> buffer_tx[c], msgs |-> msgs[c], seq |-> seq[c],
     sock |-> sock[c], err |-> err[c], n |-> n[c], sent |-> sent[c],
     monq |-> mon_msgs, logx |-> log_exc, raised |-> FALSE]

\* self.msgs.append([kind, payload])
Enq(S, kind, payload) ==
    IF S.raised THEN S ELSE [S EXCEPT !.msgs = Append(@, Ev(kind, payload))]

\* self.msgs.append([MSG_S, b"<pre>%s<post>" % self.station])
EnqSt(S, pre, post) ==
    IF S.raised THEN S
    ELSE IF S.station = None THEN [S EXCEPT !.raised = TRUE]     \* b"%s" % None
    ELSE Enq(S, MSG_S, <<pre>> \o S.station \o (IF post = "" THEN <<>> ELSE <<post>>))

\* self._monitor(t, i)
Mon(S, t, i) ==
    IF S.raised THEN S
    ELSE LET r == Channel_monitor(t, i, S.call, S.station, S.seq, S.monq, mfilter)
         IN  [S EXCEPT !.monq = r.q, !.seq = r.seq, !.raised = r.raised,
                       !.logx = IF t \in MonitorKinds THEN r.raised ELSE @]

\* self.station = None
ClearStation(S) == IF S.raised THEN S ELSE [S EXCEPT !.station = None]

\* self.status = st
SetStatus(S, st) == IF S.raised THEN S ELSE [S EXCEPT !.status = st]

\* the step of worker c ends in state S, at position pc unless it raised;
\* an exception leaves run(): the thread ends and its socket object is
\* released with the frame
WorkerStep(c, S, pc) ==
    /\ status' = [status EXCEPT ![c] = S.status]
    /\ station' = [station EXCEPT ![c] = S.station]
    /\ buffer_tx' = [buffer_tx EXCEPT ![c] = S.buffer_tx]
    /\ msgs' = [msgs EXCEPT ![c] = S.msgs]
    /\ seq' = [seq EXCEPT ![c] = S.seq]
    /\ sock' = [sock EXCEPT ![c] = IF S.raised /\ S.sock = "open" THEN "closed" ELSE S.sock]
    /\ err' = [err EXCEPT ![c] = S.err]
    /\ n' = [n EXCEPT ![c] = S.n]
    /\ sent' = [sent EXCEPT ![c] = S.sent]
    /\ mon_msgs' = S.monq
    /\ log_exc' = S.logx
    /\ wpc' = [wpc EXCEPT ![c] = IF S.raised THEN "dead" ELSE pc]
    /\ UNCHANGED <<engine_vars, call, mfilter, mon_call, mon_station, mlog, hist_vars, stafile, app>>

\* what getsockopt(SO_ERROR) and the second connect_ex can return in SETUP
SoErrors == {"0", "WSAECONNREFUSED", "WSAETIMEDOUT", "WSAEHOSTUNREACH"}
ReconnectResults == {"0", "WSAEINVAL", "WSAEISCONN", "WSAEALREADY"}

\* packets recv can return
Packets == {<<"a">>, <<"a", "\r", "\n">>, <<"FF", "FC", "01">>, <<"FF", "FD", "03">>}

\* outcomes of s.send(slice): k bytes accepted, connection reset, another error
TxResults(slice) ==
    [kind : {"ok"}, k : 0 .. Len(slice)] \cup [kind : {"reset", "error"}, k : {0}]

\* outcomes of s.recv: a packet, b"" (closed), BlockingIOError, ConnectionResetError
RxResults ==
    [kind : {"data"}, data : Packets] \cup [kind : {"closed", "block", "reset"}, data : {<<>>}]

\* run(), the branch status == ST_SETUP
RunSetup(S, so, ce) ==
    IF so = "0"
    THEN LET S1 == [S EXCEPT !.err = ce]
         IN  IF ce = "0" THEN [S1 EXCEPT !.raised = TRUE]          \* errno.errorcode[0]
             ELSE IF ce = "WSAEISCONN"
                  THEN Mon(EnqSt(SetStatus(S1, ST_CONN), "CONNECTED to ", " via Internet"),
                           "ItsSYNACK", <<>>)
             ELSE S1
    ELSE LET S1 == [S EXCEPT !.err = so]
             S2 == IF so = "WSAECONNREFUSED"
                   THEN Mon(EnqSt(S1, "BUSY fm ", ""), "ItsRST", <<>>)
                   ELSE IF so = "WSAETIMEDOUT"
                        THEN EnqSt(Mon(S1, "MyRST", <<>>), "LINK FAILURE with ", "")
                        ELSE EnqSt(Mon(S1, "ItsRST", <<>>), "LINK FAILURE with ", "")
         IN  ClearStation(S2)

\* run(), the branch status == ST_CONN: the send part
RunConnTx(S, tx) ==
    IF Len(S.buffer_tx) = 0 THEN S
    ELSE LET slice == SubSeq(S.buffer_tx, 1, IF Len(S.buffer_tx) < MAX_PKTLEN
                                             THEN Len(S.buffer_tx) ELSE MAX_PKTLEN)
             S1 == CASE tx.kind = "ok" ->
                           Mon([S EXCEPT !.n = tx.k,
                                         !.sent = @ \o SubSeq(slice, 1, tx.k)],
                               "MyPSH", slice)
                      [] tx.kind = "reset" ->
                           ClearStation(Mon(EnqSt(S, "LINK RESET fm ", ""), "ItsRST", <<>>))
                      [] OTHER -> [S EXCEPT !.raised = TRUE]
         IN  IF S1.raised THEN S1
             ELSE IF S1.n < 0 THEN [S1 EXCEPT !.raised = TRUE]     \* n is unbound
             ELSE IF S1.n > 0
                  THEN Mon([S1 EXCEPT !.buffer_tx = SubSeq(@, S1.n + 1, Len(@))],
                           "ItsPSHACK", <<>>)
             ELSE S1

\* run(), the branch status == ST_CONN: the receive part
RunConnRx(S, rx) ==
    IF S.raised \/ ~(Channel_count_msgs(S.msgs, MSG_I) < MAX_I_MSGS) THEN S
    ELSE CASE rx.kind = "closed" ->
                  ClearStation(Mon(Mon(EnqSt(S, "DISCONNECTED fm ", ""),
                                       "ItsFIN", <<>>), "MyFINACK", <<>>))
           [] rx.kind = "data" ->
                  IF Head(rx.data) = "FF"
                  THEN [S EXCEPT !.sent = @ \o Channel_reply_telnet_negotiation(rx.data)]
                  ELSE Mon(Mon(Enq(S, MSG_I, rx.data), "ItsPSH", rx.data), "MyPSHACK", <<>>)
           [] rx.kind = "reset" ->
                  ClearStation(Mon(EnqSt(S, "LINK RESET fm ", ""), "ItsRST", <<>>))
           [] OTHER -> S

\* run(): the top of one pass of the loop, up to the call of _station2ip
\* (status DISC) or through the whole branch (SETUP, CONN)
W_Top(c) ==
    /\ wpc[c] = "top"
    /\ IF status[c] = ST_DISC
       THEN IF Truthy(station[c])
            THEN LET r == Channel_station2ip(station[c], stafile)
                 IN  /\ ipaddr' = [ipaddr EXCEPT ![c] = [host |-> r.host, port |-> r.port]]
                     /\ WorkerStep(c, [WS(c) EXCEPT !.raised = r.raised], "resolved")
            ELSE /\ ipaddr' = ipaddr
                 /\ WorkerStep(c, WS(c), "end")
       ELSE /\ ipaddr' = ipaddr
            /\ IF status[c] = ST_SETUP
               THEN \E so \in SoErrors, ce \in ReconnectResults :
                        WorkerStep(c, RunSetup(WS(c), so, ce), "end")
               ELSE \E rx \in RxResults :
                    \E tx \in TxResults(SubSeq(buffer_tx[c], 1, Len(buffer_tx[c]))) :
                        WorkerStep(c, RunConnRx(RunConnTx(WS(c), tx), rx), "end")

\* W_Resolved with the socket created before all(ipaddr) is tested
W_Resolved_sockfirst(c) ==
    /\ wpc[c] = "resolved"
    /\ ipaddr' = ipaddr
    /\ IF ~AllIp(ipaddr[c])
       THEN WorkerStep(c, ClearStation(EnqSt([WS(c) EXCEPT !.sock = "open"],
                                             "LINK FAILURE with ", ": Unknown station")),
                       "end")
       ELSE \E e \in ConnectResults :
                WorkerStep(c, [WS(c) EXCEPT !.sock = "open", !.err = e], "connecting")

\* run(), status DISC with a station: from all(ipaddr) to connect_ex
W_Resolved(c) ==
    /\ wpc[c] = "resolved"
    /\ ipaddr' = ipaddr
    /\ IF ~AllIp(ipaddr[c])
       THEN WorkerStep(c, ClearStation(EnqSt(WS(c), "LINK FAILURE with ", ": Unknown station")),
                       "end")
       ELSE \E e \in ConnectResults :
                WorkerStep(c, [WS(c) EXCEPT !.sock = "open", !.err = e], "connecting")

\* run(), status DISC with a station: from errno.errorcode[err] on
W_Connecting(c) ==
    /\ wpc[c] = "connecting"
    /\ ipaddr' = ipaddr
    /\ LET S0 == WS(c)
           S1 == Mon(S0, "MySYN", <<>>)
       IN  IF err[c] = "0" THEN WorkerStep(c, [S0 EXCEPT !.raised = TRUE], "end")
           ELSE IF err[c] \in {"WSAEWOULDBLOCK", "EINPROGRESS"}
                THEN WorkerStep(c, SetStatus(S1, ST_SETUP), "end")
           ELSE WorkerStep(c, ClearStation(Mon(EnqSt(S1, "LINK FAILURE with ",
                                                      ": See terminal output"),
                                               "ItsRST", <<>>)), "end")

\* run(): the end of one pass of the loop, and the sleep
W_End(c) ==
    /\ wpc[c] = "end"
    /\ ipaddr' = ipaddr
    /\ IF ~Truthy(station[c])
       THEN WorkerStep(c, [WS(c) EXCEPT !.status = ST_DISC,
                                        !.sock = IF @ = "open" THEN "closed" ELSE @],
                       "top")
       ELSE WorkerStep(c, WS(c), "top")

Worker(c) == W_Top(c) \/ W_Resolved(c) \/ W_Connecting(c) \/ W_End(c)

\* ---------------------------------------------------------------- TNC
\* one write to the host stream
Frame(kind, ch, cond, pre, cnt, msg, nul) ==
    [kind |-> kind, ch |-> ch, cond |-> cond, pre |-> pre, cnt |-> cnt,
     msg |-> msg, nul |-> nul]

\* TNC.term_response(msg): the line written
TermFrame(msg) == Frame("term", 0 - 1, 0 - 1, <<>>, 0 - 1, msg \o <<"\r", "\n">>, FALSE)

\* TNC.host_response(ch, cond, msg): the frames written (none for an
\* unknown output condition)
HostFrames(ch, cond, msg) ==
    CASE cond = COND_OK -> <<Frame("host", ch, cond, <<>>, 0 - 1, <<>>, FALSE)>>
      [] cond \in {COND_ERRMSG, COND_OKMSG} ->
             <<Frame("host", ch, cond, <<>>, 0 - 1, msg, TRUE)>>
      [] cond = COND_LNK ->
             <<Frame("host", ch, cond, <<"(", Dec(ch), ") ">>, 0 - 1, msg, TRUE)>>
      [] cond \in {COND_CONINFO, COND_MONINF} ->
             <<Frame("host", ch, cond, <<>>, Len(msg) - 1, msg, FALSE)>>
      [] cond \in {COND_MON, COND_MONHDR} ->
             <<Frame("host", ch, cond, <<>>, 0 - 1, msg, TRUE)>>
      [] OTHER -> <<>>

\* The state one engine step reads and writes, as a record; raised is set
\* by the first statement that raises, and later statements are skipped.
ES ==
    [mode |-> mode, out |-> <<>>, raised |-> FALSE,
     station |-> station, call |-> call, buffer_tx |-> buffer_tx, msgs |-> msgs,
     seq |-> seq, monq |-> mon_msgs, mfilter |-> mfilter, mon_call |-> mon_call,
     mon_station |-> mon_station, logx |-> log_exc]

\* self.host_response(ch, cond, msg)
Respond(E, ch, cond, msg) ==
    IF E.raised THEN E ELSE [E EXCEPT !.out = @ \o HostFrames(ch, cond, msg)]

\* int(args)
IsDecimal(a) == Len(a) = 1 /\ \E k \in 0 .. 12 : Dec(k) = a[1]
IntOf(a) == CHOOSE k \in 0 .. 12 : Dec(k) = a[1]

\* the G command: the poll and the response routed by the kind of the event
HostCmdG(E, ch, args) ==
    LET t == IF args = <<"0">> THEN "0" ELSE IF args = <<"1">> THEN "1" ELSE ""
        r == IF ch = 0 THEN Monitor_get_msg(E.monq) ELSE Channel_get_msg(E.msgs[ch], t)
        E1 == IF ch = 0 THEN [E EXCEPT !.monq = r.q] ELSE [E EXCEPT !.msgs[ch] = r.q]
        kind == r.ev[1]
        msg  == r.ev[2]
    IN  IF r.ret = "none" THEN [E EXCEPT !.raised = TRUE]       \* (t, msg) = None
        ELSE IF ~Truthy(msg) THEN Respond(E1, ch, COND_OK, <<>>)
        ELSE IF kind = Dec(MSG_S) THEN Respond(E1, ch, COND_LNK, msg)
        ELSE IF kind = Dec(MSG_I) THEN Respond(E1, ch, COND_CONINFO, msg)
        ELSE IF kind = Dec(MSG_MON_H) THEN Respond(E1, ch, COND_MON, msg)
        ELSE IF kind = Dec(MSG_MON_HI) THEN Respond(E1, ch, COND_MONHDR, msg)
        ELSE IF kind = Dec(MSG_MON_I) THEN Respond(E1, ch, COND_MONINF, msg)
        ELSE E1

\* Channel.D without the test of the state: the remote is dropped on a
\* channel that is in ST_DISC too
Channel_D_unguarded(E, ch) ==
    [E EXCEPT !.station[ch] = None]

\* Channel.D, called by the engine thread
Channel_D(E, ch) ==
    IF status[ch] = ST_DISC THEN E
    ELSE LET S0 == [WS(ch) EXCEPT !.station = E.station[ch], !.msgs = E.msgs[ch],
                                  !.seq = E.seq[ch], !.monq = E.monq, !.logx = E.logx]
             S1 == ClearStation(EnqSt(Mon(Mon(S0, "MyFIN", <<>>), "ItsFINACK", <<>>),
                                      "DISCONNECTED fm ", ""))
         IN  [E EXCEPT !.station[ch] = S1.station, !.msgs[ch] = S1.msgs,
                       !.seq[ch] = S1.seq, !.monq = S1.monq, !.logx = S1.logx,
                       !.raised = S1.raised]

\* the J command refusing HOST1 when the engine is in HOST mode already
HostCmdJ_strict(E, ch, args) ==
    IF args = <<"HOST0">>
    THEN LET E1 == Respond(E, ch, COND_OK, <<>>)
         IN  [E1 EXCEPT !.mode = MODE_TERM, !.out = @ \o <<TermFrame(<<"ok">>)>>]
    ELSE IF args = <<"HOST1">> /\ E.mode = MODE_HOST
         THEN Respond(E, ch, COND_ERRMSG, <<"INVALID COMMAND: ">> \o args)
         ELSE Respond(E, ch, COND_OK, <<>>)

\* the J command writing the terminal line before the host response
HostCmdJ_okfirst(E, ch, args) ==
    IF args = <<"HOST0">>
    THEN Respond([E EXCEPT !.mode = MODE_TERM, !.out = @ \o <<TermFrame(<<"ok">>)>>],
                 ch, COND_OK, <<>>)
    ELSE Respond(E, ch, COND_OK, <<>>)

\* the J command: host_response, then term_mode, then term_response for
\* HOST0; host_response alone for any other argument
HostCmdJ(E, ch, args) ==
    IF args = <<"HOST0">>
    THEN LET E1 == Respond(E, ch, COND_OK, <<>>)
         IN  IF E1.raised THEN E1
             ELSE [E1 EXCEPT !.mode = MODE_TERM, !.out = @ \o <<TermFrame(<<"ok">>)>>]
    ELSE Respond(E, ch, COND_OK, <<>>)

\* TNC.host_cmd(ch, cmd)
HostCmd(E, ch, cmd) ==
    LET c    == SubSeq(cmd, 1, 1)
        args == Strip(SubSeq(cmd, 2, Len(cmd)))
    IN  IF ch > NCh THEN Respond(E, ch, COND_ERRMSG, <<"INVALID CHANNEL NUMBER">>)
        ELSE CASE c = <<"G">> -> HostCmdG(E, ch, args)
          [] c = <<"C">> ->
               IF args = <<>>
               THEN LET ans == IF ch = 0 THEN E.mon_station ELSE E.station[ch]
                    IN  IF ans = None
                        THEN Respond(E, ch, COND_ERRMSG, <<"CHANNEL NOT CONNECTED">>)
                        ELSE Respond(E, ch, COND_OKMSG, ans)
               ELSE Respond(IF ch = 0 THEN [E EXCEPT !.mon_station = Upper(args)]
                            ELSE [E EXCEPT !.station[ch] = Upper(args)], ch, COND_OK, <<>>)
          [] c = <<"I">> ->
               IF args = <<>>
               THEN Respond(E, ch, COND_OKMSG, IF ch = 0 THEN E.mon_call ELSE E.call[ch])
               ELSE Respond(IF ch = 0 THEN [E EXCEPT !.mon_call = args]
                            ELSE [E EXCEPT !.call[ch] = args], ch, COND_OK, <<>>)
          [] c = <<"M">> ->
               IF args = <<>> THEN Respond(E, ch, COND_OKMSG, E.mfilter)
               ELSE Respond([E EXCEPT !.mfilter = Upper(args)], ch, COND_OK, <<>>)
          [] c = <<"Y">> ->
               IF args = <<>> THEN Respond(E, ch, COND_OKMSG, <<Dec(NCh)>>)
               ELSE IF ~IsDecimal(args) THEN [E EXCEPT !.raised = TRUE]   \* int(args)
               ELSE IF IntOf(args) <= NCh THEN Respond(E, ch, COND_OK, <<>>)
               ELSE Respond(E, ch, COND_ERRMSG,
                            <<"INVALID COMMAND: TNC started with ", Dec(NCh), " channels.">>)
          [] c = <<"L">> ->
               Respond(E, ch, COND_OKMSG,
                       IF ch = 0 THEN Monitor_L(E.monq)
                       ELSE Channel_L(E.msgs[ch], E.buffer_tx[ch], status[ch]))
          [] c = <<"D">> ->
               Respond(IF ch = 0 THEN E ELSE Channel_D(E, ch), ch, COND_OK, <<>>)
          [] c = <<"J">> -> HostCmdJ(E, ch, args)
          [] c \in {<<"U">>, <<"K">>, <<"Z">>, <<"H">>} -> Respond(E, ch, COND_OK, <<>>)
          [] c = <<"@">> ->
               IF args # <<>> /\ Head(args) = "B"
               THEN Respond(E, ch, COND_OKMSG, <<"512">>)
               ELSE Respond(E, ch, COND_OK, <<>>)
          [] OTHER -> Respond(E, ch, COND_ERRMSG, <<"INVALID COMMAND: ">> \o c)

\* TNC.host_data(ch, data): channels[ch] is the Monitor for ch = 0 (it has
\* no tx method) and does not exist for ch > N
HostData(E, ch, data) ==
    IF ch = 0 \/ ch > NCh THEN [E EXCEPT !.raised = TRUE]
    ELSE Respond([E EXCEPT !.buffer_tx[ch] = Channel_tx(@, data)], ch, COND_OK, <<>>)

\* TNC.term_cmd answering the switch to HOST mode with a terminal line
TermCmd_ack(E, cmd) ==
    IF cmd = <<"JHOST1">>
    THEN [E EXCEPT !.mode = MODE_HOST, !.out = @ \o <<TermFrame(<<"OK">>)>>]
    ELSE [E EXCEPT !.out = @ \o <<TermFrame(<<"INVALID COMMAND: ">> \o cmd)>>]

\* TNC.term_cmd(cmd)
TermCmd(E, cmd) ==
    IF cmd = <<"JHOST1">> THEN [E EXCEPT !.mode = MODE_HOST]
    ELSE [E EXCEPT !.out = @ \o <<TermFrame(<<"INVALID COMMAND: ">> \o cmd)>>]

\* the engine step ends in state E, having read the input r
EngineStep(E, r) ==
    /\ mode' = E.mode
    /\ out' = E.out
    /\ tnc' = IF E.raised THEN "raised" ELSE "running"
    /\ station' = E.station
    /\ call' = E.call
    /\ buffer_tx' = E.buffer_tx
    /\ msgs' = E.msgs
    /\ seq' = E.seq
    /\ mon_msgs' = E.monq
    /\ mfilter' = E.mfilter
    /\ mon_call' = E.mon_call
    /\ mon_station' = E.mon_station
    /\ log_exc' = E.logx
    /\ req' = r
    /\ app' = NoApp
    /\ UNCHANGED <<status, worker_vars, ipaddr, mlog, stafile>>

\* ------------------------------------------------ inputs of the engine
PollBufs == {<<"G">>, <<"G", "0">>, <<"G", "1">>}
ConnectBufs == {<<"C", " ", "NOCALL">>, <<"c", " ", "ea4bao">>}
ChanBufs == PollBufs \cup ConnectBufs
                \cup {<<"C">>, <<"D">>, <<"L">>, <<"I">>, <<"I", "EA1XYZ">>, <<"X">>}
MonBufs == PollBufs
               \cup {<<"M">>, <<"M", "i", "u", "s">>, <<"Y">>, <<"Y", "1">>, <<"Y", "9">>,
                     <<"Y", "X">>, <<"J", "HOST0">>, <<"J", "HOST1">>, <<"L">>, <<"U", "0">>,
                     <<"@", "B">>, <<"@", "V", "0">>}
DataBufs == {<<"a">>, <<"a", "\r">>}

Request(ch, ic, buf) == [ch |-> ch, ic |-> ic, buf |-> buf]

\* the requests host_read can return: (channel, info/command, buffer)
HostInputs ==
    {Request(0, 1, b) : b \in MonBufs}
        \cup {Request(c, 1, b) : c \in Chans, b \in ChanBufs}
        \cup {Request(NCh + 1, 1, b) : b \in {<<"G">>, <<"C", " ", "NOCALL">>}}
        \cup {Request(c, 0, b) : c \in 0 .. (NCh + 1), b \in DataBufs}

\* the lines term_read can return: (is_command, buffer)
TermInputs ==
    {Request(0 - 1, ic, b) : ic \in {0, 1}, b \in {<<"jhost1">>, <<"JHOST1">>, <<"G", "0">>}}

NoRequest == Request(0 - 1, 0 - 1, <<>>)

\* ---------------------------------------------------------- TNC.run
\* one pass of the loop in HOST mode: host_read, then host_cmd or host_data
HostInput(r) ==
    /\ tnc = "running"
    /\ mode = MODE_HOST
    /\ r \in HostInputs
    /\ (r.ch \in Chans /\ r.ic = 1 /\ r.buf \in ConnectBufs) => Len(msgs[r.ch]) < MaxQueue
    /\ (r.ch \in Chans /\ r.ic = 0) => Len(buffer_tx[r.ch]) < MaxTx
    /\ EngineStep(IF r.ic # 0 THEN HostCmd(ES, r.ch, Upper(r.buf))
                  ELSE HostData(ES, r.ch, r.buf), r)

\* one pass of the loop in TERMINAL mode: term_read, then term_cmd
TermInput(r) ==
    /\ tnc = "running"
    /\ mode = MODE_TERM
    /\ r \in TermInputs
    /\ EngineStep(IF r.ic # 0 THEN TermCmd(ES, Upper(r.buf)) ELSE ES, r)

\* EOF on the host stream: ClosedPipeException ends the loop
HostEOF ==
    /\ tnc = "running"
    /\ tnc' = "closed"
    /\ UNCHANGED <<mode, out, chan_vars, worker_vars, ipaddr, mon_vars, hist_vars, stafile, app>>

\* ------------------------------------------------------ specification
\* TNC.__init__, Monitor.__init__ and Channel.__init__
Init ==
    /\ mode \in {MODE_TERM, MODE_HOST}
    /\ tnc = "running"
    /\ out = <<>>
    /\ status = [c \in Chans |-> ST_DISC]
    /\ station = [c \in Chans |-> None]
    /\ call = [c \in Chans |-> DEFAULT_CALLSIGN]
    /\ buffer_tx = [c \in Chans |-> <<>>]
    /\ msgs = [c \in Chans |-> <<>>]
    /\ seq = [c \in Chans |-> 0]
    /\ wpc = [c \in Chans |-> "top"]
    /\ ipaddr = [c \in Chans |-> [host |-> "", port |-> 0]]
    /\ sock = [c \in Chans |-> "unbound"]
    /\ err = [c \in Chans |-> "unbound"]
    /\ n = [c \in Chans |-> 0 - 1]
    /\ sent = [c \in Chans |-> <<>>]
    /\ mon_msgs = <<>>
    /\ mfilter = DEFAULT_FILTER
    /\ mon_call = DEFAULT_CALLSIGN
    /\ mon_station = DEFAULT_CALLSIGN
    /\ log_exc = FALSE
    /\ mlog = [w \in Loggers |-> LogIdle]
    /\ app = NoApp
    /\ stafile \in StaFiles
    /\ req = NoRequest

Next ==
    \/ \E r \in HostInputs : HostInput(r)
    \/ \E r \in TermInputs : TermInput(r)
    \/ HostEOF
    \/ \E c \in Chans : Worker(c)

Spec == Init /\ [][Next]_vars

\* ------------------------------------------- the queue of one channel
\* The events a pass of Channel.run can append: received data (MSG_I) and
\* link status texts (MSG_S).
QueueEvents ==
    {Ev(MSG_I, <<"a">>), Ev(MSG_I, <<"b", "\r">>),
     Ev(MSG_S, <<"CONNECTED to ", "EA4BAO", " via Internet">>)}

\* one pass of run() that appends the event ev to self.msgs
Q_Enqueue(c, ev) ==
    /\ wpc[c] = "top"
    /\ Len(msgs[c]) < MaxEvents
    /\ ipaddr' = ipaddr
    /\ WorkerStep(c, [WS(c) EXCEPT !.msgs = Append(@, ev)], "end")

\* the channel whose queue is exercised: the first one
QChans == {c \in Chans : c <= 1}

PollInputs == {Request(c, 1, b) : c \in QChans, b \in PollBufs}

InitQ == Init /\ mode = MODE_HOST /\ stafile.unreadable

NextQ ==
    \/ \E c \in QChans : \E ev \in QueueEvents : Q_Enqueue(c, ev)
    \/ \E c \in QChans : W_End(c)
    \/ \E r \in PollInputs : HostInput(r)

\* the queue methods of Channel under polls of the host and appends of the worker
SpecQ == InitQ /\ [][NextQ]_vars

\* ------------------------------------------------------------- claims
\* the step is one pass of the engine loop that handled an input
EngineMoved == wpc' = wpc /\ tnc = "running" /\ tnc' # "closed"

\* the filter of a G request, as host_cmd reads it
PollFilter(r) ==
    LET args == Strip(SubSeq(Upper(r.buf), 2, Len(r.buf)))
    IN  IF args = <<"0">> THEN "0" ELSE IF args = <<"1">> THEN "1" ELSE ""

\* the step is the engine handling a G request with filter t on channel c
PollOf(c, t) ==
    /\ EngineMoved
    /\ req'.ic = 1 /\ req'.ch = c /\ SubSeq(Upper(req'.buf), 1, 1) = <<"G">>
    /\ PollFilter(req') = t

\* the engine answered the poll of channel c with exactly the event ev
Answered(o, c, ev) ==
    /\ Len(o) = 1
    /\ o[1].kind = "host" /\ o[1].ch = c /\ o[1].msg = ev[2]
    /\ o[1].cond = (IF ev[1] = "0" THEN COND_CONINFO ELSE COND_LNK)

IsPrefix(a, b) == Len(a) <= Len(b) /\ SubSeq(b, 1, Len(a)) = a

\* q without its element at index i
Without(q, i) == [k \in 1 .. (Len(q) - 1) |-> IF k < i THEN q[k] ELSE q[k + 1]]

\* C3 (as claimed): for every connection channel, state = DISC if and only
\* if remote is unset, if and only if the channel has no live socket.
C3_DiscIffNoRemoteIffNoSocket ==
    \A c \in Chans :
        /\ (status[c] = ST_DISC) <=> (station[c] = None)
        /\ (station[c] = None) <=> (sock[c] # "open")

\* C3 (amended): whenever remote is unset, the state is DISC and the channel
\* has no live socket.  (The converse fails: connect() sets remote while the
\* state is DISC and no socket exists, until the worker's next pass.)
C3_NoRemoteImpliesDisc ==
    \A c \in Chans : station[c] = None => (status[c] = ST_DISC /\ sock[c] # "open")

\* C3 witness: a connect was issued, the worker failed to resolve it, queued
\* the failure and cleared remote again
C3_Witness ==
    \E c \in Chans : station[c] = None /\ msgs[c] # <<>> /\ wpc[c] = "end"

\* C4: on any channel a poll without filter returns and removes the oldest
\* queued event, and every other step leaves the queued events in place and
\* appends new ones behind them: successive unfiltered polls return the
\* events in the order in which they were enqueued.
C4_UnfilteredPollInOrder ==
    [][\A c \in Chans :
          /\ (PollOf(c, "") /\ msgs[c] # <<>>) =>
                 (msgs'[c] = Tail(msgs[c]) /\ Answered(out', c, Head(msgs[c])))
          /\ (EngineMoved /\ ~(\E t \in {"", "0", "1"} : PollOf(c, t))) =>
                 msgs'[c] = msgs[c]
          /\ ~EngineMoved => IsPrefix(msgs[c], msgs'[c])]_vars

\* C4 witness: an unfiltered poll has returned a data event while a link
\* status event and a further event wait behind it
C4_Witness ==
    \E c \in Chans :
        /\ req = Request(c, 1, <<"G">>)
        /\ Len(out) = 1 /\ out[1].cond = COND_CONINFO
        /\ Len(msgs[c]) >= 2 /\ msgs[c][1][1] = "1"

\* C5: a poll with filter t on a queue that holds an event of kind t removes
\* exactly one event, the oldest of kind t, returns it, and leaves every other
\* event in the queue in its previous relative order.
C5_FilteredPollTakesOldest ==
    [][\A c \in Chans : \A t \in {"0", "1"} :
          (PollOf(c, t) /\ CountKind(msgs[c], t) > 0) =>
              \E i \in 1 .. Len(msgs[c]) :
                  /\ msgs[c][i][1] = t
                  /\ \A j \in 1 .. (i - 1) : msgs[c][j][1] # t
                  /\ msgs'[c] = Without(msgs[c], i)
                  /\ Answered(out', c, msgs[c][i])
                  /\ tnc' = "running"]_vars

\* C5 witness: a poll for data has returned a data event from behind a link
\* status event, which is still at the head of the queue
C5_Witness ==
    \E c \in Chans :
        /\ req = Request(c, 1, <<"G", "0">>)
        /\ Len(out) = 1 /\ out[1].cond = COND_CONINFO
        /\ Len(msgs[c]) >= 2 /\ msgs[c][1][1] = "1" /\ msgs[c][2][1] = "0"

\* C6: a poll with filter t on a channel whose queue holds no event of kind
\* t (empty or not) leaves the queue unchanged and is answered COND_OK.
C6_NoMatchPollAnswersOk ==
    [][\A c \in Chans : \A t \in {"0", "1"} :
          (PollOf(c, t) /\ CountKind(msgs[c], t) = 0) =>
              /\ msgs'[c] = msgs[c]
              /\ tnc' = "running"
              /\ out' = HostFrames(c, COND_OK, <<>>)]_vars

\* C9: the engine loop never ends by an exception, whatever the request.
C9_EngineNeverRaises == tnc # "raised"

\* C10: a channel worker never raises and never stops its loop.
C10_WorkerNeverStops == \A c \in Chans : wpc[c] # "dead"

\* Every worker that opens a socket raises in its first _monitor call (see C10),
\* so no channel leaves ST_DISC, queues an INFO event, sends a byte or logs a frame.
NeverConnected ==
    /\ mon_msgs = <<>>
    /\ \A c \in Chans : /\ status[c] = ST_DISC
                        /\ CountKind(msgs[c], Dec(MSG_I)) = 0
                        /\ sent[c] = <<>>

\* ------------------------------------ Monitor.log under its own callers
\* The frames a caller asks Monitor.log to record, with the arguments its
\* docstring names: ctl, src, dst, seq, nxt, i.
LogCalls ==
    {[ctl |-> "SABM", i |-> <<>>], [ctl |-> "RR", i |-> <<>>],
     [ctl |-> "I", i |-> <<"a", "\r", "\n">>], [ctl |-> "XX", i |-> <<>>]}

\* log(): from the entry to the decision to add the frame, by thread w;
\* app keeps the call and its outcome
ML_Call(w, a) ==
    /\ mlog[w].pc = "idle"
    /\ Len(mon_msgs) < MaxMonLen
    /\ LET uisc == LogClass(a.ctl)
           msg  == LogText(a.ctl, <<"NOCALL">>, <<"EA4BAO">>, 0, 1)
           rec  == [f |-> "log", ctl |-> a.ctl, mfilter |-> mfilter,
                    len |-> Len(mon_msgs), added |-> FALSE, raised |-> FALSE]
       IN  IF uisc = "unbound"
           THEN /\ log_exc' = TRUE /\ mlog' = mlog
                /\ app' = [rec EXCEPT !.raised = TRUE]
           ELSE /\ log_exc' = FALSE
                /\ IF ~InFilter(uisc, mfilter) \/ (uisc \in {"I"} /\ Len(mon_msgs) >= MAX_MSGS)
                   THEN mlog' = mlog /\ app' = rec
                   ELSE /\ app' = [rec EXCEPT !.added = TRUE]
                        /\ mlog' = [mlog EXCEPT ![w] =
                            IF a.ctl = "I"
                            THEN [pc |-> "append", hdr |-> Ev(MSG_MON_HI, msg),
                                  info |-> Ev(MSG_MON_I, CollapseCRLF(a.i))]
                            ELSE [pc |-> "append", hdr |-> Ev(MSG_MON_H, msg),
                                  info |-> <<>>]]
    /\ UNCHANGED <<engine_vars, chan_vars, worker_vars, ipaddr, mon_msgs, mfilter,
                   mon_call, mon_station, hist_vars, stafile>>

\* log(): self.msgs.append of the header
ML_Append(w) ==
    /\ mlog[w].pc = "append"
    /\ mon_msgs' = Append(mon_msgs, mlog[w].hdr)
    /\ mlog' = [mlog EXCEPT ![w] = IF mlog[w].info = <<>> THEN LogIdle
                                    ELSE [@ EXCEPT !.pc = "info"]]
    /\ app' = NoApp
    /\ UNCHANGED <<engine_vars, chan_vars, worker_vars, ipaddr, mfilter, mon_call,
                   mon_station, log_exc, hist_vars, stafile>>

\* log(): self.msgs.append of the information of an I frame
ML_Info(w) ==
    /\ mlog[w].pc = "info"
    /\ mon_msgs' = Append(mon_msgs, mlog[w].info)
    /\ mlog' = [mlog EXCEPT ![w] = LogIdle]
    /\ app' = NoApp
    /\ UNCHANGED <<engine_vars, chan_vars, worker_vars, ipaddr, mfilter, mon_call,
                   mon_station, log_exc, hist_vars, stafile>>

MonInputs == {Request(0, 1, <<"G">>), Request(0, 1, <<"M", "i", "u", "s">>)}

\* the filters a caller of Monitor.M sets
MonFilters == {<<"u">>, <<"S", "I">>, <<"n">>}

\* Monitor.M(mfilter) with a filter given
Monitor_M(f) ==
    /\ f \in MonFilters
    /\ mfilter' = Upper(f)
    /\ app' = NoApp
    /\ UNCHANGED <<engine_vars, chan_vars, worker_vars, ipaddr, mon_msgs, mon_call,
                   mon_station, log_exc, mlog, hist_vars, stafile>>

\* the thread whose calls of log are followed: the first one
MonLoggers == {w \in Loggers : w <= 1}

InitMon == Init /\ mode = MODE_HOST /\ stafile.unreadable

\* an RR frame is logged into an empty queue only, which keeps the contents
\* of the queue few
NextMon ==
    \/ \E w \in MonLoggers : \E a \in LogCalls :
           (a.ctl = "RR" => mon_msgs = <<>>) /\ ML_Call(w, a)
    \/ \E w \in MonLoggers : ML_Append(w)
    \/ \E w \in MonLoggers : ML_Info(w)
    \/ \E f \in MonFilters : Monitor_M(f)
    \/ \E r \in MonInputs : HostInput(r)

\* Monitor under calls of log with documented arguments and polls of channel 0
SpecMon == InitMon /\ [][NextMon]_vars

\* C2: the monitor queue never holds more than MAX_MSGS events.
C2_MonitorQueueBounded == Len(mon_msgs) <= MAX_MSGS

\* ------------------------------------------- the engine started in TERMINAL mode
\* TNC(hostmode = False), the default of the constructor, with a well-formed
\* stations file
InitT == Init /\ mode = MODE_TERM /\ stafile = StaFileOk

\* the requests that address the monitor, the first channel or no channel
FirstInputs == {r \in HostInputs : r.ch = 0 \/ r.ch \in QChans \/ r.ch > NCh}

NextT ==
    \/ \E r \in FirstInputs : HostInput(r)
    \/ \E r \in TermInputs : TermInput(r)
    \/ HostEOF
    \/ \E c \in QChans : Worker(c)

\* the program started in TERMINAL mode, its host using the first channel
SpecT == InitT /\ [][NextT]_vars

\* ------------------------------------------------- claims C11 to C20
\* the worker of channel c is about to act on a fault it has observed: the
\* station did not resolve, or connect_ex returned an error other than
\* "in progress"
FaultSeen(c) ==
    \/ wpc[c] = "resolved" /\ ~AllIp(ipaddr[c])
    \/ wpc[c] = "connecting" /\ err[c] \notin {"0", "EINPROGRESS", "WSAEWOULDBLOCK"}

\* C11: every channel-level fault produces exactly one LINK_STATUS event in
\* that channel's queue: the worker step that handles the fault appends one
\* event of kind MSG_S and nothing else.
C11_OneStatusPerFault ==
    [][\A c \in Chans :
          (FaultSeen(c) /\ wpc'[c] # wpc[c]) =>
              /\ Len(msgs'[c]) = Len(msgs[c]) + 1
              /\ SubSeq(msgs'[c], 1, Len(msgs[c])) = msgs[c]
              /\ msgs'[c][Len(msgs'[c])][1] = Dec(MSG_S)]_vars

\* the step is one pass of the engine loop that read a line in TERMINAL mode
TermStep == EngineMoved /\ mode = MODE_TERM

\* the line read is the command JHOST1, in any case
IsJhost1(r) == r.ic = 1 /\ Upper(r.buf) = <<"JHOST1">>

\* C12: in TERMINAL mode the command JHOST1 (case-insensitive) switches the
\* mode to HOST and writes nothing to the host stream; any other terminal
\* input leaves the mode TERMINAL and changes no channel.
C12_TermJhost1Switches ==
    [][TermStep =>
          /\ tnc' = "running"
          /\ IsJhost1(req') => (mode' = MODE_HOST /\ out' = <<>>)
          /\ ~IsJhost1(req') => (mode' = MODE_TERM /\ UNCHANGED <<chan_vars, mon_vars>>)]_vars

\* C12 witness: the lower-case command jhost1 has been read in TERMINAL mode
\* and the engine is in HOST mode with nothing written
C12_Witness ==
    /\ mode = MODE_HOST /\ out = <<>> /\ tnc = "running"
    /\ req = Request(0 - 1, 1, <<"jhost1">>)

\* the step is one pass of the engine loop that read a request in HOST mode
HostStep == EngineMoved /\ mode = MODE_HOST

\* the request is the command J on an existing channel
IsJ(r) == r.ic = 1 /\ r.ch \in 0 .. NCh /\ SubSeq(Upper(r.buf), 1, 1) = <<"J">>

\* the argument of a command, as host_cmd reads it
ArgsOf(r) == Strip(SubSeq(Upper(r.buf), 2, Len(r.buf)))

\* C13: in HOST mode the command J HOST0 writes the COND_OK host response
\* first and the terminal line "ok" second, and leaves the mode TERMINAL, so
\* that the next input is read with terminal framing; J with any other
\* argument answers COND_OK alone and leaves the mode HOST.
C13_Jhost0ReturnsToTerminal ==
    [][(HostStep /\ IsJ(req')) =>
          /\ tnc' = "running"
          /\ ArgsOf(req') = <<"HOST0">> =>
                 /\ out' = HostFrames(req'.ch, COND_OK, <<>>) \o <<TermFrame(<<"ok">>)>>
                 /\ mode' = MODE_TERM
          /\ ArgsOf(req') # <<"HOST0">> =>
                 /\ out' = HostFrames(req'.ch, COND_OK, <<>>)
                 /\ mode' = MODE_HOST]_vars

\* C13 witness: J HOST0 has been handled: two writes, the mode is TERMINAL
C13_Witness ==
    /\ req = Request(0, 1, <<"J", "HOST0">>)
    /\ mode = MODE_TERM /\ Len(out) = 2 /\ out[2].kind = "term"

\* C14: two successive JHOST1 commands leave the engine in HOST mode
\* without error: once the engine is in HOST mode (entered by the terminal
\* command JHOST1), the command J HOST1 keeps the mode HOST, is answered
\* COND_OK and not by an error response, and the engine loop goes on.
C14_SecondJhost1Harmless ==
    [][(HostStep /\ IsJ(req') /\ ArgsOf(req') = <<"HOST1">>) =>
          /\ mode' = MODE_HOST
          /\ tnc' = "running"
          /\ \A k \in 1 .. Len(out') : out'[k].kind = "host" /\ out'[k].cond # COND_ERRMSG]_vars

\* C14 witness: the engine, started in TERMINAL mode, has handled J HOST1 in
\* HOST mode and is still running in HOST mode
C14_Witness ==
    /\ req = Request(0, 1, <<"J", "HOST1">>)
    /\ mode = MODE_HOST /\ tnc = "running" /\ out = HostFrames(0, COND_OK, <<>>)

\* ceil(a / b) for a >= 0, b > 0
CeilDiv(a, b) == (a + b - 1) \div b

\* the six integers link_status() is specified to return for channel c
LinkStatusText(c) ==
    <<Dec(CountKind(msgs[c], Dec(MSG_S))), " ", Dec(CountKind(msgs[c], Dec(MSG_I))), " ",
      Dec(CeilDiv(Len(buffer_tx[c]), MAX_PKTLEN)), " ", "0", " ", "0", " ", Dec(status[c])>>

\* C15: link_status() returns (a, b, c, 0, 0, f): a the number of
\* LINK_STATUS events queued, b the number of INFO events queued,
\* c = ceil(len(tx_buffer) / 254), f the state code; the L command of a
\* channel answers with exactly these six integers.
C15_LinkStatusCeil ==
    [][\A c \in Chans :
          (HostStep /\ req'.ic = 1 /\ req'.ch = c /\ Upper(req'.buf) = <<"L">>) =>
              out' = HostFrames(c, COND_OKMSG, LinkStatusText(c))]_vars

\* --------------------------- the receive part of run() applied to a packet
\* A channel as the receive part of run() finds it in ST_CONN: a remote
\* station, an open socket, nothing queued and nothing to send.
ConnectedChannel ==
    [status |-> ST_CONN, station |-> <<"EA4BAO">>, call |-> DEFAULT_CALLSIGN,
     buffer_tx |-> <<>>, msgs |-> <<>>, seq |-> 0, sock |-> "open",
     err |-> "WSAEISCONN", n |-> 0 - 1, sent |-> <<>>, monq |-> <<>>,
     logx |-> FALSE, raised |-> FALSE]

\* the bytes that can follow IAC in a negotiation packet
NegBytes == {"FC", "FD", "FE", "01", "03"}

RECURSIVE SeqsUpTo(_, _)
SeqsUpTo(S, k) ==
    IF k = 0 THEN {<<>>}
    ELSE LET shorter == SeqsUpTo(S, k - 1)
         IN  shorter \cup {Append(p, x) : p \in shorter, x \in S}

\* packets recv can return whose first byte is 0xFF, of up to MaxPkt bytes
NegPackets == {<<"FF">> \o p : p \in SeqsUpTo(NegBytes, MaxPkt - 1)}

\* data = s.recv(MAX_PKTLEN) returned the packet p: the receive part of one
\* pass, its effect on the socket and on the queue
F_Rx(p) ==
    /\ LET S == RunConnRx(ConnectedChannel, [kind |-> "data", data |-> p])
       IN  app' = [f |-> "rx", in |-> p, sent |-> S.sent, msgs |-> S.msgs,
                   raised |-> S.raised]
    /\ UNCHANGED <<engine_vars, chan_vars, worker_vars, ipaddr, mon_vars, hist_vars, stafile>>

InitNeg == Init /\ mode = MODE_HOST /\ stafile = StaFileOk

NextNeg == \E p \in NegPackets : F_Rx(p)

\* the receive part of Channel.run on Telnet negotiation packets
SpecNeg == InitNeg /\ [][NextNeg]_vars

\* the refusal of a negotiation packet, byte by byte: WILL is left alone,
\* WONT (FC) becomes DONT (FE), DO (FD) becomes WONT (FC)
Refusal(p) ==
    [k \in 1 .. Len(p) |-> IF p[k] = "FC" THEN "FE" ELSE IF p[k] = "FD" THEN "FC" ELSE p[k]]

\* C16: for every received packet whose first byte is 0xFF the worker sends
\* back the packet with every 0xFC replaced by 0xFE and every original 0xFD
\* replaced by 0xFC, all other bytes unchanged, and enqueues no INFO event.
C16_NegotiationRefused ==
    app.f = "rx" =>
        /\ app.sent = Refusal(app.in)
        /\ app.msgs = <<>>
        /\ ~app.raised

\* C16 witness: a packet holding both DO and WONT has been answered
C16_Witness ==
    /\ app.f = "rx"
    /\ app.in = <<"FF", "FD", "FC", "03">>
    /\ app.sent = <<"FF", "FC", "FE", "03">>

\* C17: any host request, command or data, whose channel byte is greater
\* than N is answered COND_ERRMSG "INVALID CHANNEL NUMBER" and leaves every
\* channel and the monitor unchanged.
C17_InvalidChannelRefused ==
    [][(HostStep /\ req'.ch > NCh) =>
          /\ out' = HostFrames(req'.ch, COND_ERRMSG, <<"INVALID CHANNEL NUMBER">>)
          /\ tnc' = "running"
          /\ UNCHANGED <<chan_vars, mon_vars>>]_vars

\* the stations file has an entry for the station sta
Listed(sta, file) ==
    \E k \in 1 .. Len(file.lines) :
        /\ ~file.lines[k].comment
        /\ Len(file.lines[k].fields) >= 1
        /\ Upper(<<file.lines[k].fields[1].s>>) = Strip(Upper(sta))

\* C18: if connect(cs) is issued on a DISC channel and cs does not resolve in
\* the station directory, the next worker tick finds no address, enqueues
\* exactly one LINK_STATUS event "LINK FAILURE with <cs>: Unknown station",
\* clears remote, creates no socket and leaves the state DISC; a following G1
\* returns that event under COND_LNK with the "(<ch>) " prefix.
C18_UnknownStationReported ==
    [][\A c \in Chans :
          /\ (/\ wpc[c] = "top" /\ wpc'[c] # "top"
              /\ status[c] = ST_DISC /\ Truthy(station[c])
              /\ ~Listed(station[c], stafile)) =>
                 (wpc'[c] = "resolved" /\ ~AllIp(ipaddr'[c]))
          /\ (wpc[c] = "resolved" /\ wpc'[c] # "resolved" /\ ~AllIp(ipaddr[c])) =>
                 /\ msgs'[c] = Append(msgs[c],
                                      Ev(MSG_S, <<"LINK FAILURE with ">> \o station[c]
                                                    \o <<": Unknown station">>))
                 /\ station'[c] = None
                 /\ sock'[c] # "open"
                 /\ status'[c] = ST_DISC
          /\ (PollOf(c, "1") /\ CountKind(msgs[c], "1") > 0) =>
                 /\ Len(out') = 1
                 /\ out'[1].cond = COND_LNK /\ out'[1].pre = <<"(", Dec(c), ") ">>
                 /\ out'[1].msg = msgs[c][FirstIdx(msgs[c], "1")][2]]_vars

\* ------------------------------------------------ fair scheduling
\* The worker threads are scheduled again and again (each pass of run() ends
\* in sleep(0.01)); the host is free to send requests or not.
SpecFair == SpecT /\ \A c \in QChans : WF_vars(Worker(c))

\* C19: after a C <callsign> command on a DISC channel, under fair scheduling
\* of the worker, a LINK_STATUS event eventually appears in the queue of
\* that channel.
C19_ConnectEventuallyReports ==
    \A c \in QChans :
        (status[c] = ST_DISC /\ Truthy(station[c])) ~> (CountKind(msgs[c], Dec(MSG_S)) > 0)

\* When a worker reaches the end of a pass, its channel is in ST_DISC and has
\* no open socket: the statements that force ST_DISC and close the socket
\* (the end of run()) never find anything to change.
EndOfPassIdle ==
    \A c \in Chans : wpc[c] = "end" => (status[c] = ST_DISC /\ sock[c] # "open")

\* ------------------------------------------------- claims C21 to C30
\* the request is the command D on channel c
IsD(r, c) == r.ic = 1 /\ r.ch = c /\ Upper(r.buf) = <<"D">>

SeqNeverAdvances == \A c \in Chans : seq[c] = 0

\* C24: Monitor.log adds the frame of a call exactly when the class letter
\* of the frame (U, S or I) occurs in the filter of that moment and the call
\* is not an I frame arriving at a queue of MAX_MSGS events or more; under
\* the default filter "N" no call adds anything.
C24_AdmissionRule ==
    (app.f = "log" /\ LogClass(app.ctl) \in {"U", "S", "I"}) =>
        /\ app.added <=>
              /\ \E k \in 1 .. Len(app.mfilter) : app.mfilter[k] = LogClass(app.ctl)
              /\ ~(LogClass(app.ctl) = "I" /\ app.len >= MAX_MSGS)
        /\ app.mfilter = DEFAULT_FILTER => ~app.added
        /\ ~app.raised

\* an I frame was refused by a full queue although the filter names its
\* class, and the filter does not name the class U
C24_Witness ==
    /\ app.f = "log" /\ app.ctl = "I" /\ ~app.added
    /\ app.mfilter = <<"S", "I">> /\ app.len >= MAX_MSGS

\* C25: a call of Monitor.log with a control code outside SABM, DISC, UA,
\* DM, RR and I returns normally to its caller and adds no event to the
\* monitor queue.
C25_UnknownCtlIgnored ==
    (app.f = "log" /\ LogClass(app.ctl) = "unbound") => (~app.raised /\ ~app.added)

\* ------------------------------------ Monitor.log called by several threads
\* Every worker thread calls log of the one Monitor without a lock while the
\* engine thread polls channel 0; a thread can be suspended between any two
\* of its appends.
NextCon ==
    \/ \E w \in Loggers : \E a \in LogCalls : Len(mon_msgs) < MaxConc /\ ML_Call(w, a)
    \/ \E w \in Loggers : ML_Append(w)
    \/ \E w \in Loggers : ML_Info(w)
    \/ \E r \in MonInputs : HostInput(r)

SpecCon == InitMon /\ [][NextCon]_vars

\* C28: every MON_HDRINFO event in the monitor queue is immediately followed
\* by its MON_INFO event, no event of another frame in between; the only
\* header without its info is the last event of the queue while the thread
\* that appended it has still to append the info.
C28_HeaderThenInfo ==
    \A k \in 1 .. Len(mon_msgs) :
        mon_msgs[k][1] = Dec(MSG_MON_HI) =>
            \/ k < Len(mon_msgs) /\ mon_msgs[k + 1][1] = Dec(MSG_MON_I)
            \/ k = Len(mon_msgs) /\ \E w \in Loggers : mlog[w].pc = "info"

\* the frames of o written by host_response
HostFramesIn(o) == SelectSeq(o, LAMBDA fr : fr.kind = "host")

\* the request read by the step was answered by one host response frame
\* with the channel byte of the request, written first
AnsweredOnce ==
    /\ Len(HostFramesIn(out')) = 1
    /\ out'[1].kind = "host"
    /\ out'[1].ch = req'.ch
    /\ Len(out') > 1 => (IsJ(req') /\ ArgsOf(req') = <<"HOST0">> /\ Len(out') = 2)

\* C30: in HOST mode every request read from the host stream is answered,
\* before the next one is read, by exactly one host response frame that
\* carries the channel byte of the request; only J HOST0 writes more, the
\* terminal line "ok" after its response.
C30_OneResponsePerRequest == [][HostStep => AnsweredOnce]_vars

\* every request whose handler returns is answered once
AnsweredUnlessRaised == [][(HostStep /\ tnc' = "running") => AnsweredOnce]_vars

\* ------------------------------------------------------------ claim C31
\* the worker of a channel holds a socket opened to the address of EA4BAO
\* while the remote of the channel has been set to another callsign
RemoteChangedUnderSocket ==
    \E c \in Chans : /\ sock[c] = "open" /\ ipaddr[c].host # ""
                     /\ station[c] = <<"NOCALL">>

\* no channel is in ST_SETUP or ST_CONN
NoSession == \A c \in Chans : status[c] \notin {ST_SETUP, ST_CONN}

====
